---- MODULE Spec2Model ----
(***************************************************************************)
(* Model of the prioritization engine of AutomationPriorityMatrix:         *)
(*   models/scoring.py         ScoringSystem                               *)
(*   models/test_model.py      TestModel                                   *)
(*   models/prioritization.py  TestPrioritizationModel                     *)
(*                                                                         *)
(* Representation notes.                                                   *)
(*  - A Python value that may be an int, a str or None (a CSV cell, a test *)
(*    id) is a record [ty, n, s]; see PInt, PStr, PNone.                   *)
(*  - A normalized score is a float with one decimal place; it is held as  *)
(*    an integer number of tenths (60.0 is 600, 89.9 is 899).              *)
(*  - A dict is a function; "key in d" is  key \in DOMAIN d.               *)
(***************************************************************************)
EXTENDS Integers, Sequences, FiniteSets, TLC

VARIABLES tests, current_id, sections, ret, onlyAddDelete, arg

vars == <<tests, current_id, sections, ret, onlyAddDelete, arg>>

----------------------------------------------------------------------------
(* Bounds of the model *)

MaxTests == 2

MaxId == 3

MaxScoreTenths == 1000
MaxWeight == 1

----------------------------------------------------------------------------
(* Python values *)

PInt(n) == [ty |-> "int", n |-> n, s |-> ""]

PStr(s) == [ty |-> "str", n |-> 0, s |-> s]

PNone == [ty |-> "none", n |-> 0, s |-> ""]

\* The decimal literals among the strings the model feeds to int().
IntLiterals == [s \in {"1", "2", "3", "5", "7"} |->
                  CASE s = "1" -> 1 [] s = "2" -> 2 [] s = "3" -> 3
                    [] s = "5" -> 5 [] s = "7" -> 7]

\* int(v): the integer and the exception raised ("" when none is).
int(v) ==
  CASE v.ty = "int" -> [n |-> v.n, raised |-> ""]
    [] v.ty = "str" -> IF v.s \in DOMAIN IntLiterals
                         THEN [n |-> IntLiterals[v.s], raised |-> ""]
                         ELSE [n |-> 0, raised |-> "ValueError"]
    [] OTHER -> [n |-> 0, raised |-> "TypeError"]

\* str.lower() on the strings the model uses.
lower(s) == IF s \in {"nan", "NaN", "NAN"} THEN "nan" ELSE s

\* d.get(key, default)
Get(d, key, default) == IF key \in DOMAIN d THEN d[key] ELSE default

----------------------------------------------------------------------------
(* ScoringSystem *)

FactorKeys == {"can_be_automated", "regression_frequency", "customer_impact",
               "manual_effort", "automation_complexity", "existing_framework",
               "angular_framework", "repetitive"}

factors == [k \in FactorKeys |->
  CASE k = "can_be_automated"      -> [name |-> "Can it be Automated", weight |-> 0]
    [] k = "regression_frequency"  -> [name |-> "Regression Frequency", weight |-> 3]
    [] k = "customer_impact"       -> [name |-> "Customer Impact", weight |-> 3]
    [] k = "manual_effort"         -> [name |-> "Manual Test Effort", weight |-> 2]
    [] k = "automation_complexity" -> [name |-> "Automation Complexity", weight |-> 2]
    [] k = "existing_framework"    -> [name |-> "Existing Framework", weight |-> 2]
    [] k = "angular_framework"     -> [name |-> "Angular Framework", weight |-> 1]
    [] k = "repetitive"            -> [name |-> "Repetitive", weight |-> 1]]

\* The keys of score_options[factor], the same for every factor.
score_options == {1, 3, 5}

RECURSIVE SumOver(_, _)
SumOver(S, f) ==
  IF S = {} THEN 0
  ELSE LET k == CHOOSE x \in S : TRUE IN f[k] + SumOver(S \ {k}, f)

\* round1 with the quotient cut off after the first decimal place.
round1_truncating(num, den) == (num * 1000) \div den

\* round(num / den * 100, 1), in tenths.  With den = 70 no quotient lies
\* half way between two tenths, so rounding to nearest is unambiguous.
round1(num, den) == (2 * num * 1000 + den) \div (2 * den)

\* "can_be_automated" in scores and scores["can_be_automated"] == 1
IsNo(scores) ==
  "can_be_automated" \in DOMAIN scores /\ scores["can_be_automated"] = 1

\* calculate_score without the early return for the "No" answer.
calculate_score_without_override(scores) ==
  LET factors_copy == FactorKeys \ {"can_be_automated"}
      present == factors_copy \cap DOMAIN scores
      raw_score == SumOver(present,
                     [f \in present |-> scores[f] * factors[f].weight])
  IN [raw |-> raw_score, norm |-> round1(raw_score, 70), raised |-> ""]

calculate_score(scores) ==
  IF IsNo(scores) THEN [raw |-> 0, norm |-> 0, raised |-> ""]
  ELSE
    LET factors_copy == FactorKeys \ {"can_be_automated"}
        present == factors_copy \cap DOMAIN scores
        raw_score == SumOver(present,
                       [f \in present |-> scores[f] * factors[f].weight])
        max_raw_score == SumOver(factors_copy,
                       [f \in factors_copy |-> 5 * factors[f].weight])
    IN IF max_raw_score = 0
         THEN [raw |-> raw_score, norm |-> 0, raised |-> "ZeroDivisionError"]
         ELSE [raw |-> raw_score, norm |-> round1(raw_score, max_raw_score),
               raised |-> ""]

\* calculate_score of a ScoringSystem whose factors attribute is catalog.
calculate_score_with(catalog, scores) ==
  IF IsNo(scores) THEN [raw |-> 0, norm |-> 0, raised |-> ""]
  ELSE
    LET factors_copy == DOMAIN catalog \ {"can_be_automated"}
        present == factors_copy \cap DOMAIN scores
        raw_score == SumOver(present,
                       [f \in present |-> scores[f] * catalog[f].weight])
        max_raw_score == SumOver(factors_copy,
                       [f \in factors_copy |-> 5 * catalog[f].weight])
    IN IF max_raw_score = 0
         THEN [raw |-> raw_score, norm |-> 0, raised |-> "ZeroDivisionError"]
         ELSE [raw |-> raw_score, norm |-> round1(raw_score, max_raw_score),
               raised |-> ""]

\* get_priority_category with the first threshold exclusive.
get_priority_category_exclusive(score, can_be_automated) ==
  IF ~can_be_automated THEN "Can't Automate"
  ELSE IF score > 900 THEN "Highest"
  ELSE IF score >= 800 THEN "High"
  ELSE IF score >= 600 THEN "Medium"
  ELSE IF score >= 400 THEN "Low"
  ELSE "Lowest"

get_priority_category(score, can_be_automated) ==
  IF ~can_be_automated THEN "Can't Automate"
  ELSE IF score >= 900 THEN "Highest"
  ELSE IF score >= 800 THEN "High"
  ELSE IF score >= 600 THEN "Medium"
  ELSE IF score >= 400 THEN "Low"
  ELSE "Lowest"

----------------------------------------------------------------------------
(* TestModel *)

\* Number of positional arguments TestModel.__init__ accepts after self:
\* id, name, description, ticket_id, scores and the optional yes_no_answers.
TestModel_init_arity == 5..6

\* TestModel.to_dict(): the keys of the dictionary it builds.
to_dict(id, name, description, ticket_id, scores, raw_score, total_score, priority) ==
  [id |-> id, name |-> name, description |-> description,
   ticket_id |-> ticket_id, scores |-> scores, raw_score |-> raw_score,
   total_score |-> total_score, priority |-> priority]

----------------------------------------------------------------------------
(* TestPrioritizationModel *)

None == PNone

Return(op, val) == [op |-> op, raised |-> "", val |-> val]

Raise(op, exc) == [op |-> op, raised |-> exc, val |-> None]

\* The value of an operation: the fields it leaves in the model and what
\* it returns or raises.
Outcome(ts, cid, secs, r) ==
  [tests |-> ts, current_id |-> cid, sections |-> secs, ret |-> r]

\* any(t.get("section") == section for t in ts)
\* The check that finds no test in any section.
SectionUsed_never(ts, section) ==
  \E i \in 1..Len(ts) :
    "section" \in DOMAIN ts[i] /\ ts[i].section = section /\ i > Len(ts)

SectionUsed(ts, section) ==
  \E i \in 1..Len(ts) :
    "section" \in DOMAIN ts[i] /\ ts[i].section = section

\* Index of the last test with this id, 0 when there is none.
find_test_by_id_last(test_id) ==
  IF \E i \in 1..Len(tests) : tests[i].id = test_id
    THEN CHOOSE i \in 1..Len(tests) :
           /\ tests[i].id = test_id
           /\ \A j \in (i + 1)..Len(tests) : tests[j].id # test_id
    ELSE 0

\* Index of the first test with this id, 0 when there is none.
find_test_by_id(test_id) ==
  IF \E i \in 1..Len(tests) : tests[i].id = test_id
    THEN CHOOSE i \in 1..Len(tests) :
           /\ tests[i].id = test_id
           /\ \A j \in 1..(i - 1) : tests[j].id # test_id
    ELSE 0

\* add_test building the test with the arguments TestModel takes, and
\* leaving the id counter as it is.
add_test_same_id(name, section, description, ticket_id, scores, priority_category) ==
  LET sc == calculate_score(scores)
      priority ==
        IF IsNo(scores) THEN "Won't Automate"
        ELSE IF priority_category # "" THEN priority_category
        ELSE get_priority_category(sc.norm, TRUE)
      test_dict == to_dict(PInt(current_id), name, description, ticket_id,
                           scores, sc.raw, sc.norm, priority)
  IN Outcome(Append(tests, test_dict), current_id,
             IF section # "" THEN sections \cup {section} ELSE sections,
             Return("add_test", test_dict))

\* priority_category is "" when the caller passes None or an empty string.
add_test(name, section, description, ticket_id, scores, priority_category) ==
  IF 7 \notin TestModel_init_arity
    THEN \* TestModel(self.current_id, name, section, description, ticket_id,
         \*           scores, yes_no_answers) passes seven arguments
         Outcome(tests, current_id, sections, Raise("add_test", "TypeError"))
    ELSE
      LET sc == calculate_score(scores)
          raw_score == IF IsNo(scores) THEN 0 ELSE sc.raw
          normalized_score == IF IsNo(scores) THEN 0 ELSE sc.norm
          priority ==
            IF IsNo(scores) THEN "Won't Automate"
            ELSE IF priority_category # "" THEN priority_category
            ELSE get_priority_category(normalized_score, TRUE)
          test_dict == to_dict(PInt(current_id), name, description, ticket_id,
                               scores, raw_score, normalized_score, priority)
      IN Outcome(Append(tests, test_dict), current_id + 1,
                 IF section # "" THEN sections \cup {section} ELSE sections,
                 Return("add_test", test_dict))

\* update_test taking the label of a "No" answer from the classifier.
update_test_classifier_label(test_id, name, section, description, ticket_id, scores) ==
  LET i == find_test_by_id(test_id) IN
  IF i = 0
    THEN Outcome(tests, current_id, sections, Return("update_test", None))
    ELSE
      LET sc == calculate_score(scores)
          test_dict ==
            [name |-> name, description |-> description,
             ticket_id |-> ticket_id, section |-> section, scores |-> scores,
             raw_score |-> sc.raw, total_score |-> sc.norm,
             priority |-> get_priority_category(sc.norm, ~IsNo(scores))]
            @@ tests[i]
          old_section == Get(tests[i], "section", "")
          ts == [tests EXCEPT ![i] = test_dict]
          secs ==
            IF section # "" /\ section # old_section
              THEN IF old_section # "" /\ ~SectionUsed(ts, old_section)
                     THEN (sections \cup {section}) \ {old_section}
                     ELSE sections \cup {section}
              ELSE sections
      IN Outcome(ts, current_id, secs, Return("update_test", test_dict))

update_test(test_id, name, section, description, ticket_id, scores) ==
  LET i == find_test_by_id(test_id) IN
  IF i = 0
    THEN Outcome(tests, current_id, sections, Return("update_test", None))
    ELSE
      LET sc == calculate_score(scores)
          raw_score == IF IsNo(scores) THEN 0 ELSE sc.raw
          normalized_score == IF IsNo(scores) THEN 0 ELSE sc.norm
          priority_category ==
            IF IsNo(scores) THEN "Won't Automate"
            ELSE get_priority_category(normalized_score, TRUE)
          old_section == Get(tests[i], "section", "")
          test_dict ==
            [name |-> name, description |-> description,
             ticket_id |-> ticket_id, section |-> section, scores |-> scores,
             raw_score |-> raw_score, total_score |-> normalized_score,
             priority |-> priority_category] @@ tests[i]
          ts == [tests EXCEPT ![i] = test_dict]
          secs ==
            IF section # "" /\ section # old_section
              THEN IF old_section # "" /\ ~SectionUsed(ts, old_section)
                     THEN (sections \cup {section}) \ {old_section}
                     ELSE sections \cup {section}
              ELSE sections
      IN Outcome(ts, current_id, secs, Return("update_test", test_dict))

delete_all_tests ==
  IF Len(tests) = 0
    THEN Outcome(tests, current_id, sections, Return("delete_all_tests", FALSE))
    ELSE Outcome(<<>>, 1, {}, Return("delete_all_tests", 0 < Len(tests)))

\* The sequence without its i-th element.
\* The list without its last element, whatever i is.
Del_last(ts, i) == SubSeq(ts, 1, Len(ts) - 1)

Del(ts, i) == [j \in 1..(Len(ts) - 1) |-> IF j < i THEN ts[j] ELSE ts[j + 1]]

\* delete_one_test reporting a deletion when no test has the id.
delete_one_test_reports_found(test_id) ==
  LET i == find_test_by_id(test_id) IN
  IF i = 0
    THEN Outcome(tests, current_id, sections, Return("delete_one_test", TRUE))
    ELSE
      LET section == Get(tests[i], "section", "")
          ts == Del(tests, i)
      IN Outcome(ts, current_id,
                 IF section # "" /\ ~SectionUsed(ts, section)
                   THEN sections \ {section} ELSE sections,
                 Return("delete_one_test", TRUE))

delete_one_test(test_id) ==
  LET i == find_test_by_id(test_id) IN
  IF i = 0
    THEN Outcome(tests, current_id, sections, Return("delete_one_test", FALSE))
    ELSE
      LET section == Get(tests[i], "section", "")
          ts == Del(tests, i)
      IN Outcome(ts, current_id,
                 IF section # "" /\ ~SectionUsed(ts, section)
                   THEN sections \ {section} ELSE sections,
                 Return("delete_one_test", TRUE))

\* The id of the first test with this name, None when there is none.
find_test_id_by_name(name) ==
  IF \E i \in 1..Len(tests) : tests[i].name = name
    THEN LET i == CHOOSE i \in 1..Len(tests) :
                    /\ tests[i].name = name
                    /\ \A j \in 1..(i - 1) : tests[j].name # name
         IN tests[i].id
    ELSE None

\* The order with "Won't Automate" ahead of every tier.
priority_order_wont_first(priority) ==
  CASE priority = "Highest" -> 0
    [] priority = "High" -> 1
    [] priority = "Medium" -> 2
    [] priority = "Low" -> 3
    [] priority = "Lowest" -> 4
    [] priority = "Won't Automate" -> 0 - 1
    [] OTHER -> 999

\* priority_order.get(priority, 999)
priority_order(priority) ==
  CASE priority = "Highest" -> 0
    [] priority = "High" -> 1
    [] priority = "Medium" -> 2
    [] priority = "Low" -> 3
    [] priority = "Lowest" -> 4
    [] priority = "Won't Automate" -> 5
    [] OTHER -> 999

\* The sort key with the score ascending: (priority_order, total_score).
KeyBelow_ascending(x, y) ==
  \/ priority_order(x.priority) < priority_order(y.priority)
  \/ /\ priority_order(x.priority) = priority_order(y.priority)
     /\ x.total_score < y.total_score

\* The sort key (priority_order, -total_score) of x is below that of y.
KeyBelow(x, y) ==
  \/ priority_order(x.priority) < priority_order(y.priority)
  \/ /\ priority_order(x.priority) = priority_order(y.priority)
     /\ (0 - x.total_score) < (0 - y.total_score)

\* sorted(ts, key=...): a stable sort, each element placed behind the
\* elements before it whose key is not above its own.
RECURSIVE sorted(_)
sorted(ts) ==
  IF Len(ts) = 0 THEN <<>>
  ELSE
    LET x == ts[Len(ts)]
        front == sorted(SubSeq(ts, 1, Len(ts) - 1))
        n == Cardinality({j \in 1..Len(front) : ~KeyBelow(x, front[j])})
    IN SubSeq(front, 1, n) \o <<x>> \o SubSeq(front, n + 1, Len(front))

\* if section_filter: true of a string that is not empty, false of None
\* and of "".
Truthy(v) == v.ty = "str" /\ v.s # ""

\* [t for t in self.tests if t.get("section", "") == section_filter], or
\* all tests when the filter is None or empty.
filtered_tests(section_filter) ==
  IF Truthy(section_filter)
    THEN LET InSection(t) == Get(t, "section", "") = section_filter.s
         IN SelectSeq(tests, InSection)
    ELSE tests

get_sorted_tests(section_filter) == sorted(filtered_tests(section_filter))

\* Cumulative tiers: the tests of this priority or a better one.
WithPriority_at_least(ts, priority) ==
  LET Has(t) == priority_order(t.priority) <= priority_order(priority)
  IN SelectSeq(ts, Has)

\* The tests of one priority, in sorted order.
WithPriority(ts, priority) ==
  LET Has(t) == t.priority = priority IN SelectSeq(ts, Has)

\* Thresholds are held in tenths of a point, as scores are; max_score * 0.55
\* is 55.00000000000001 as a float and 550 here.
get_priority_tiers(section_filter) ==
  IF Len(filtered_tests(section_filter)) = 0
    THEN [highest |-> <<>>, high |-> <<>>, medium |-> <<>>, low |-> <<>>,
          lowest |-> <<>>, wont_automate |-> <<>>,
          high_threshold |-> 0, medium_threshold |-> 0, low_threshold |-> 0,
          lowest_threshold |-> 0, highest_threshold |-> 0, max_score |-> 0]
    ELSE
      LET sorted_tests == get_sorted_tests(section_filter)
          max_score == 1000
      IN [highest |-> WithPriority(sorted_tests, "Highest"),
          high |-> WithPriority(sorted_tests, "High"),
          medium |-> WithPriority(sorted_tests, "Medium"),
          low |-> WithPriority(sorted_tests, "Low"),
          lowest |-> WithPriority(sorted_tests, "Lowest"),
          wont_automate |-> WithPriority(sorted_tests, "Won't Automate"),
          lowest_threshold |-> (max_score * 20) \div 100,
          low_threshold |-> (max_score * 40) \div 100,
          medium_threshold |-> (max_score * 55) \div 100,
          high_threshold |-> (max_score * 70) \div 100,
          highest_threshold |-> (max_score * 85) \div 100,
          max_score |-> max_score]

\* import_tests defaulting every factor, can_be_automated too, to 3.
import_scores_default_three(data) ==
  [factor_key \in FactorKeys |->
    LET factor_name == factors[factor_key].name
        default == 3
    IN IF factor_name \in DOMAIN data
         THEN IF int(data[factor_name]).raised = ""
                THEN int(data[factor_name]).n
                ELSE default
         ELSE default]

\* The scores import_tests reads from one raw record.
import_scores(data) ==
  [factor_key \in FactorKeys |->
    LET factor_name == factors[factor_key].name
        default == IF factor_key = "can_be_automated" THEN 5 ELSE 3
    IN IF factor_name \in DOMAIN data
         THEN IF int(data[factor_name]).raised = ""
                THEN int(data[factor_name]).n
                ELSE default
         ELSE default]

\* The text of a cell; None and a missing cell have none.
Text(v) == IF v.ty = "str" THEN v.s ELSE ""

import_description(data) ==
  LET description == Get(data, "Description", PStr(""))
  IN IF description = PStr("nan") \/ description = PNone
        \/ (description.ty = "str" /\ lower(description.s) = "nan")
       THEN "" ELSE Text(description)

import_section(data) ==
  LET section == Get(data, "Section", PStr(""))
  IN IF Text(section) # "" /\ section # PStr("nan") /\ section # PNone
       THEN Text(section) ELSE ""

\* The test dictionary import_tests builds from one raw record.
import_test(data) ==
  LET scores == import_scores(data)
      sc == calculate_score(scores)
      raw_score == IF IsNo(scores) THEN 0 ELSE sc.raw
      normalized_score == IF IsNo(scores) THEN 0 ELSE sc.norm
      priority_category ==
        IF IsNo(scores) THEN "Won't Automate"
        ELSE get_priority_category(normalized_score, TRUE)
  IN [id |-> Get(data, "Test ID", PInt(current_id)),
      name |-> Text(Get(data, "Test Name", PStr(""))),
      section |-> import_section(data),
      ticket_id |-> Text(Get(data, "Ticket ID", PStr(""))),
      description |-> import_description(data),
      scores |-> scores,
      raw_score |-> raw_score,
      \* round(normalized_score, 1) of a score that has one decimal place
      total_score |-> normalized_score,
      priority |-> priority_category]

\* The loop of import_tests from record i on; int(test_id) raises an
\* uncaught TypeError for a None id, after the test was appended.
RECURSIVE import_loop(_, _, _, _, _)
import_loop(tests_data, i, ts, secs, max_id) ==
  IF i > Len(tests_data)
    THEN Outcome(ts, max_id, secs, Return("import_tests", Len(tests_data)))
    ELSE
      LET test == import_test(tests_data[i])
          secs2 == IF test.section # "" THEN secs \cup {test.section} ELSE secs
          id_num == int(test.id)
      IN IF id_num.raised = "TypeError"
           THEN Outcome(Append(ts, test), current_id, secs2,
                        Raise("import_tests", "TypeError"))
           ELSE import_loop(tests_data, i + 1, Append(ts, test), secs2,
                            IF id_num.raised = "" /\ id_num.n >= max_id
                              THEN id_num.n + 1 ELSE max_id)

import_tests(tests_data, replace) ==
  import_loop(tests_data, 1,
              IF replace THEN <<>> ELSE tests,
              IF replace THEN {} ELSE sections,
              current_id)

----------------------------------------------------------------------------
(* Inputs *)

\* One value for every factor key, then some keys changed.
AllScores(v) == [k \in FactorKeys |-> v]

\* (name, section, scores) of the calls of add_test and update_test.
FormInputs ==
  { <<"n1", "", AllScores(5)>>,
    <<"n1", "A", [AllScores(5) EXCEPT !["can_be_automated"] = 1]>>,
    <<"n2", "B", [k \in {"regression_frequency", "repetitive"} |->
                    IF k = "repetitive" THEN 1 ELSE 5]>> }

PriorityInputs == {"", "High"}

IdInputs == {PInt(1), PInt(2), PStr("x")}

FactorColumns(v) == [c \in {factors[k].name : k \in FactorKeys} |-> PStr(v)]

EmptyRecord == [c \in {} |-> PNone]

\* Raw records as the CSV layer hands them over.
RecordInputs ==
  { EmptyRecord,
    ("Test ID" :> PInt(1)) @@ ("Section" :> PStr("A")) @@ ("Test Name" :> PStr("n1"))
      @@ ("Can it be Automated" :> PStr("1")) @@ FactorColumns("5"),
    ("Test ID" :> PStr("2")) @@ ("Section" :> PStr("A")) @@ FactorColumns("5"),
    ("Section" :> PStr("nan")) @@ ("Regression Frequency" :> PStr("oops")),
    ("Test ID" :> PStr("x")) @@ ("Section" :> PNone) @@ ("Description" :> PStr("NaN"))
      @@ ("Can it be Automated" :> PNone) @@ ("Customer Impact" :> PStr("7")),
    ("Test ID" :> PNone) @@ ("Section" :> PStr("B")) }

\* Lists of no, one or two raw records.
BatchInputs ==
  {<<>>} \cup {<<r>> : r \in RecordInputs}
         \cup {<<r, q>> : r \in RecordInputs, q \in RecordInputs}

----------------------------------------------------------------------------
(* The repository as a state machine *)

NoArg == [fn |-> "none"]

Init ==
  /\ tests = <<>>
  /\ current_id = 1
  /\ sections = {}
  /\ ret = Return("__init__", None)
  /\ onlyAddDelete = TRUE
  /\ arg = NoArg

Apply(outcome) ==
  LET o == outcome IN
  /\ Len(o.tests) <= MaxTests
  /\ o.current_id <= MaxId
  /\ tests' = o.tests
  /\ current_id' = o.current_id
  /\ sections' = o.sections
  /\ ret' = o.ret
  /\ arg' = arg

AddTestCall(f, priority_category) ==
  /\ Apply(add_test(f[1], f[2], "d", "AUTO-1", f[3], priority_category))
  /\ onlyAddDelete' = onlyAddDelete

AddTest ==
  \E f \in FormInputs, priority_category \in PriorityInputs :
    AddTestCall(f, priority_category)

UpdateTestCall(test_id, f) ==
  /\ Apply(update_test(test_id, f[1], f[2], "d", "AUTO-1", f[3]))
  /\ onlyAddDelete' = FALSE

UpdateTest ==
  \E test_id \in IdInputs, f \in FormInputs : UpdateTestCall(test_id, f)

DeleteAllTests ==
  /\ Apply(delete_all_tests)
  /\ onlyAddDelete' = FALSE

DeleteOneTestCall(test_id) ==
  /\ Apply(delete_one_test(test_id))
  /\ onlyAddDelete' = onlyAddDelete

DeleteOneTest == \E test_id \in IdInputs : DeleteOneTestCall(test_id)

ImportTestsCall(tests_data, replace) ==
  /\ Len(tests_data) + (IF replace THEN 0 ELSE Len(tests)) <= MaxTests
  /\ Apply(import_tests(tests_data, replace))
  /\ onlyAddDelete' = FALSE

ImportTests ==
  \E tests_data \in BatchInputs, replace \in BOOLEAN :
    ImportTestsCall(tests_data, replace)

Next == AddTest \/ UpdateTest \/ DeleteAllTests \/ DeleteOneTest \/ ImportTests

Spec == Init /\ [][Next]_vars

----------------------------------------------------------------------------
(* The repository with its queries.  A query leaves the repository as it  *)
(* is, so what can follow it is what can follow the state it was asked in: *)
(* the model asks each query as the last step.                             *)

NameInputs == {"n1", "n2"}

FilterInputs == {PNone, PStr(""), PStr("A"), PStr("B")}

QueryOps == {"find_test_by_id", "find_test_id_by_name", "get_sorted_tests",
             "get_priority_tiers"}

Queried == ret.op \in QueryOps

Query(a, val) ==
  /\ ~Queried
  /\ ret' = Return(a.fn, val)
  /\ arg' = a
  /\ UNCHANGED <<tests, current_id, sections, onlyAddDelete>>

FindTestByIdCall(test_id) ==
  Query([fn |-> "find_test_by_id", test_id |-> test_id],
        IF find_test_by_id(test_id) = 0 THEN None
        ELSE tests[find_test_by_id(test_id)])

FindTestById == \E test_id \in IdInputs : FindTestByIdCall(test_id)

FindTestIdByNameCall(name) ==
  Query([fn |-> "find_test_id_by_name", name |-> name],
        find_test_id_by_name(name))

FindTestIdByName == \E name \in NameInputs : FindTestIdByNameCall(name)

GetSortedTests ==
  \E section_filter \in FilterInputs :
    Query([fn |-> "get_sorted_tests", section_filter |-> section_filter],
          get_sorted_tests(section_filter))

GetPriorityTiers ==
  \E section_filter \in FilterInputs :
    Query([fn |-> "get_priority_tiers", section_filter |-> section_filter],
          get_priority_tiers(section_filter))

Mutate == ~Queried /\ Next

NextQuery ==
  Mutate \/ FindTestById \/ FindTestIdByName \/ GetSortedTests \/ GetPriorityTiers

SpecQuery == Init /\ [][NextQuery]_vars

----------------------------------------------------------------------------
(* The repository with an import whose input is kept.  As the last step   *)
(* the model imports a batch and keeps the batch, the replace flag and    *)
(* the number of tests there were, so that the stored tests can be held   *)
(* against the records they were read from.                               *)

Recorded == arg # NoArg

\* The outcome becomes the state and the call is kept.
ApplyRecorded(outcome, a) ==
  /\ outcome.current_id <= MaxId
  /\ tests' = outcome.tests
  /\ current_id' = outcome.current_id
  /\ sections' = outcome.sections
  /\ ret' = outcome.ret
  /\ arg' = a

ImportTestsRecorded ==
  \E tests_data \in BatchInputs, replace \in BOOLEAN :
    /\ ~Recorded
    /\ Len(tests_data) + (IF replace THEN 0 ELSE Len(tests)) <= MaxTests
    /\ ApplyRecorded(import_tests(tests_data, replace),
                     [fn |-> "import_tests", tests_data |-> tests_data,
                      replace |-> replace, before |-> Len(tests)])
    /\ onlyAddDelete' = FALSE

Prepare == ~Recorded /\ Next

NextImport == Prepare \/ ImportTestsRecorded

SpecImport == Init /\ [][NextImport]_vars

----------------------------------------------------------------------------
(* The repository with a replacing import made twice.  After an import    *)
(* with replace=True whose input was kept, the same batch is imported     *)
(* with replace=True again, and the state the first import left is kept.  *)

ImportTestsAgain ==
  /\ arg.fn = "import_tests"
  /\ arg.replace
  /\ ApplyRecorded(import_tests(arg.tests_data, TRUE),
                   [fn |-> "import_tests_again", tests_data |-> arg.tests_data,
                    once |-> [tests |-> tests, current_id |-> current_id,
                              sections |-> sections]])
  /\ onlyAddDelete' = FALSE

NextReimport == Prepare \/ ImportTestsRecorded \/ ImportTestsAgain

SpecReimport == Init /\ [][NextReimport]_vars

----------------------------------------------------------------------------
(* The repository with the two views that offer "New Section".  Both      *)
(* write the label into the model's sections set themselves.              *)

\* What the dialog returns: "" for a cancelled or empty entry, else a name.
SectionNameInputs == {"", "C"}

add_new_section(view, new_section) ==
  IF new_section # ""
    THEN Outcome(tests, current_id, sections \cup {new_section},
                 Return(view, None))
    ELSE Outcome(tests, current_id, sections, Return(view, None))

TestFormAddNewSection ==
  \E new_section \in SectionNameInputs :
    /\ Apply(add_new_section("TestForm.add_new_section", new_section))
    /\ onlyAddDelete' = onlyAddDelete

\* The details view is the view of a live test.
TestDetailsViewAddNewSection ==
  \E new_section \in SectionNameInputs :
    /\ Len(tests) > 0
    /\ Apply(add_new_section("TestDetailsView.add_new_section", new_section))
    /\ onlyAddDelete' = onlyAddDelete

NextGui == Next \/ TestFormAddNewSection \/ TestDetailsViewAddNewSection

SpecGui == Init /\ [][NextGui]_vars

----------------------------------------------------------------------------
(* The repository with its reports.  A report is generated from the tiers *)
(* of all tests, as the last step.                                        *)

\* HTMLReportGenerator.export_report: the counts of the summary cards and
\* the tests of each section of the page.
export_report(priority_tiers) ==
  [priority_counts |->
     ("Highest" :> Len(priority_tiers["highest"]))
     @@ ("High" :> Len(priority_tiers["high"]))
     @@ ("Medium" :> Len(priority_tiers["medium"]))
     @@ ("Low" :> Len(priority_tiers["low"]))
     @@ ("Lowest" :> Len(priority_tiers["lowest"]))
     @@ ("Can't Automate" :> Len(Get(priority_tiers, "cant_automate", <<>>))),
   sections |->
     ("highest" :> priority_tiers["highest"])
     @@ ("high" :> priority_tiers["high"])
     @@ ("medium" :> priority_tiers["medium"])
     @@ ("low" :> priority_tiers["low"])
     @@ ("lowest" :> priority_tiers["lowest"])
     @@ ("cant_automate" :>
           IF "cant_automate" \in DOMAIN priority_tiers
             THEN priority_tiers["cant_automate"] ELSE <<>>)]

\* TextReportGenerator.generate_report_text: the tests of each section of
\* the text.
generate_report_text(priority_tiers) ==
  [sections |->
     ("highest" :> priority_tiers["highest"])
     @@ ("high" :> priority_tiers["high"])
     @@ ("medium" :> priority_tiers["medium"])
     @@ ("low" :> priority_tiers["low"])
     @@ ("lowest" :> priority_tiers["lowest"])
     @@ ("cant_automate" :> Get(priority_tiers, "cant_automate", <<>>))]

ReportOps == {"export_report", "generate_report_text"}

Reported == ret.op \in ReportOps

Report(fn, val) ==
  /\ ~Reported
  /\ ret' = Return(fn, val)
  /\ arg' = [fn |-> fn]
  /\ UNCHANGED <<tests, current_id, sections, onlyAddDelete>>

ExportReport == Report("export_report", export_report(get_priority_tiers(None)))

GenerateReportText ==
  Report("generate_report_text", generate_report_text(get_priority_tiers(None)))

Review == ~Reported /\ Next

NextReport == Review \/ ExportReport \/ GenerateReportText

SpecReport == Init /\ [][NextReport]_vars

----------------------------------------------------------------------------
(* The Scoring Function on its own: every map of valid scores *)

AllScoreMaps == [FactorKeys -> score_options]

InitRepository ==
  /\ tests = <<>>
  /\ current_id = 1
  /\ sections = {}
  /\ ret = Return("__init__", None)
  /\ onlyAddDelete = TRUE

InitScoring ==
  /\ InitRepository
  /\ arg \in {[fn |-> "calculate_score", scores |-> m] : m \in AllScoreMaps}

CalculateScore ==
  /\ arg.fn = "calculate_score"
  /\ ret' = Return("calculate_score", calculate_score(arg.scores))
  /\ UNCHANGED <<tests, current_id, sections, onlyAddDelete, arg>>

NextScoring == CalculateScore

SpecScoring == InitScoring /\ [][NextScoring]_vars

----------------------------------------------------------------------------
(* The Tier Classifier on its own: every score with one decimal place *)

InitClassify ==
  /\ InitRepository
  /\ arg \in {[fn |-> "get_priority_category", score |-> x, can_be_automated |-> b] :
                x \in 0..MaxScoreTenths, b \in BOOLEAN}

GetPriorityCategory ==
  /\ arg.fn = "get_priority_category"
  /\ ret' = Return("get_priority_category",
                   get_priority_category(arg.score, arg.can_be_automated))
  /\ UNCHANGED <<tests, current_id, sections, onlyAddDelete, arg>>

NextClassify == GetPriorityCategory

SpecClassify == InitClassify /\ [][NextClassify]_vars

----------------------------------------------------------------------------
(* The Scoring Function over catalogs: every weight from 0 to MaxWeight   *)

CatalogInputs ==
  {[k \in FactorKeys |->
      [name |-> factors[k].name,
       weight |-> IF k = "can_be_automated" THEN 0 ELSE w[k]]] :
     w \in [FactorKeys -> 0..MaxWeight]}

ScoreInputs ==
  {AllScores(3), AllScores(5), [AllScores(5) EXCEPT !["can_be_automated"] = 1]}

InitCatalog ==
  /\ InitRepository
  /\ arg \in {[fn |-> "calculate_score", factors |-> c, scores |-> m] :
                c \in CatalogInputs, m \in ScoreInputs}

CalculateScoreWith ==
  /\ arg.fn = "calculate_score"
  /\ ret.op # "calculate_score"
  /\ ret' = Return("calculate_score",
                   calculate_score_with(arg.factors, arg.scores))
  /\ UNCHANGED <<tests, current_id, sections, onlyAddDelete, arg>>

NextCatalog == CalculateScoreWith

SpecCatalog == InitCatalog /\ [][NextCatalog]_vars

----------------------------------------------------------------------------
(* Properties *)

\* The non-empty section values of the live tests.
LiveSections == {Get(tests[i], "section", "") : i \in 1..Len(tests)} \ {""}

IdsDistinct(ts) ==
  \A i, j \in 1..Len(ts) : i # j => ts[i].id # ts[j].id

\* C1: in every reachable state the sections set is exactly the set of the
\* non-empty section values of the live tests.
C1_SectionsInvariant == sections = LiveSections

C3_AddTestSucceeds ==
  [][\A f \in FormInputs, priority_category \in PriorityInputs :
       AddTestCall(f, priority_category) =>
         /\ ret'.raised = ""
         /\ ret'.val.id = PInt(current_id)
         /\ Len(tests') = Len(tests) + 1
         /\ tests'[Len(tests')] = ret'.val
         /\ (f[2] # "" => f[2] \in sections')
         /\ current_id' = current_id + 1]_vars

\* C4: in every reachable state no two live tests have the same id.
C4_IdUnique == IdsDistinct(tests)

Score(scores, k) == IF k \in DOMAIN scores THEN scores[k] ELSE 0

WeightedSum(scores) ==
  3 * Score(scores, "regression_frequency") + 3 * Score(scores, "customer_impact")
  + 2 * Score(scores, "manual_effort") + 2 * Score(scores, "automation_complexity")
  + 2 * Score(scores, "existing_framework") + Score(scores, "angular_framework")
  + Score(scores, "repetitive")

\* C7: the stored raw score and total score of every live test are those of
\* its stored scores: 0 and 0 under the override, else the weighted sum and
\* that sum as a percentage of 70, to the nearest tenth.
C7_ScoresInSync ==
  \A i \in 1..Len(tests) :
    LET t == tests[i]
        off == 70 * t.total_score - 1000 * t.raw_score
    IN IF IsNo(t.scores)
         THEN t.raw_score = 0 /\ t.total_score = 0
         ELSE /\ t.raw_score = WeightedSum(t.scores)
              /\ 2 * off <= 70
              /\ 2 * off >= -70

\* A test stored by update_test whose percentage, 22.857..., rounds up.
C7_Witness ==
  /\ ret.op = "update_test"
  /\ \E i \in 1..Len(tests) :
       tests[i].raw_score = 16 /\ tests[i].total_score = 229

\* C8: for an automatable test the classifier returns Highest from 90.0,
\* High from 80.0, Medium from 60.0, Low from 40.0 and Lowest below.
C8_TierThresholds ==
  (ret.op = "get_priority_category" /\ arg.can_be_automated) =>
    LET x == arg.score
        p == ret.val
    IN /\ (x >= 900 => p = "Highest")
       /\ (x >= 800 /\ x < 900 => p = "High")
       /\ (x >= 600 /\ x < 800 => p = "Medium")
       /\ (x >= 400 /\ x < 600 => p = "Low")
       /\ (x < 400 => p = "Lowest")

\* The classifier has returned for 90.0.
C8_Witness ==
  /\ ret.op = "get_priority_category"
  /\ arg.can_be_automated
  /\ arg.score = 900
  /\ ret.val = "Highest"

\* C9: for a test that cannot be automated the classifier returns "Won't
\* Automate", the label the repository stores and sorts by.
C9_WontAutomateLabel ==
  (ret.op = "get_priority_category" /\ ~arg.can_be_automated) =>
    ret.val = "Won't Automate"

\* C10: for scores in {1,3,5} the normalized score lies in [0,100] and is 100
\* exactly when can_be_automated is not 1 and every other factor scores 5.
C10_NormalizationBound ==
  ret.op = "calculate_score" =>
    /\ ret.val.norm >= 0
    /\ ret.val.norm <= 1000
    /\ (ret.val.norm = 1000 <=>
          /\ arg.scores["can_be_automated"] # 1
          /\ \A k \in FactorKeys \ {"can_be_automated"} : arg.scores[k] = 5)

\* The scoring function has returned 100.0.
C10_Witness == ret.op = "calculate_score" /\ ret.val.norm = 1000

\* C11: the total score of every live test lies in [0,100] and every stored
\* factor score is 1, 3 or 5.
C11_ScoresInRange ==
  \A i \in 1..Len(tests) :
    /\ tests[i].total_score >= 0
    /\ tests[i].total_score <= 1000
    /\ \A k \in DOMAIN tests[i].scores : tests[i].scores[k] \in {1, 3, 5}

\* No live test has this id.
IdAbsent(test_id) == \A i \in 1..Len(tests) : tests[i].id # test_id

\* No live test has this name.
NameAbsent(name) == \A i \in 1..Len(tests) : tests[i].name # name

\* The step returned without raising and left the repository as it was.
Untouched ==
  /\ ret'.raised = ""
  /\ tests' = tests
  /\ current_id' = current_id
  /\ sections' = sections

\* C12: with an id no live test has, update_test returns None,
\* delete_one_test returns False and find_test_by_id returns None; with a
\* name no live test has, find_test_id_by_name returns None.  None of them
\* raises, and each leaves the collection, the id counter and the sections
\* set unchanged.
C12_NotFound ==
  [][/\ \A test_id \in IdInputs :
          IdAbsent(test_id) =>
            /\ \A f \in FormInputs :
                 (ret'.op = "update_test" /\ UpdateTestCall(test_id, f))
                   => (Untouched /\ ret'.val = None)
            /\ (ret'.op = "delete_one_test" /\ DeleteOneTestCall(test_id))
                 => (Untouched /\ ret'.val = FALSE)
            /\ (ret'.op = "find_test_by_id" /\ FindTestByIdCall(test_id))
                 => (Untouched /\ ret'.val = None)
     /\ \A name \in NameInputs :
          NameAbsent(name) =>
            ((ret'.op = "find_test_id_by_name" /\ FindTestIdByNameCall(name))
               => (Untouched /\ ret'.val = None))]_vars

\* update_test has missed in a repository that holds tests.
C12_Witness ==
  /\ ret.op = "update_test"
  /\ ret.raised = ""
  /\ ret.val = None
  /\ Len(tests) > 0

\* C13: every call of delete_all_tests leaves the collection empty, the
\* sections set empty and the id counter at 1, and returns whether the
\* collection held a test before the call.
C13_DeleteAllResets ==
  [][DeleteAllTests =>
       /\ tests' = <<>>
       /\ sections' = {}
       /\ current_id' = 1
       /\ ret'.val = (Len(tests) > 0)]_vars

\* C14: without delete_all_tests the id counter never decreases, and every
\* call of add_test raises it by one.
C14_IdsNeverReused ==
  [][/\ (ret'.op # "delete_all_tests" => current_id' >= current_id)
     /\ \A f \in FormInputs, priority_category \in PriorityInputs :
          AddTestCall(f, priority_category) => current_id' = current_id + 1]_vars

\* C15: after a call of import_tests the id counter is greater than every
\* live test id that int() accepts.
C15_CounterAboveImportedIds ==
  ret.op = "import_tests" =>
    \A i \in 1..Len(tests) :
      int(tests[i].id).raised = "" => int(tests[i].id).n < current_id

\* The number of places of seq that hold t.
Occurrences(seq, t) == Cardinality({i \in 1..Len(seq) : seq[i] = t})

\* The test passes the filter: there is no filter (None, or the empty
\* string, which names no section), or its section is the filter.
InFilter(t, section_filter) ==
  \/ section_filter.ty = "none"
  \/ section_filter.s = ""
  \/ ("section" \in DOMAIN t /\ t.section = section_filter.s)

\* The rank of a tier.
TierRank(priority) ==
  CASE priority = "Highest" -> 0
    [] priority = "High" -> 1
    [] priority = "Medium" -> 2
    [] priority = "Low" -> 3
    [] priority = "Lowest" -> 4
    [] priority = "Won't Automate" -> 5

\* C16: get_sorted_tests returns exactly the live tests whose section is
\* the filter (all live tests without a filter), each as often as it is
\* stored, by tier rank ascending and, within a tier, by total_score
\* descending.  An empty filter counts as no filter.
C16_SortedTests ==
  ret.op = "get_sorted_tests" =>
    LET r == ret.val
        f == arg.section_filter
    IN /\ \A i \in 1..Len(r) : InFilter(r[i], f)
       /\ \A i \in 1..Len(r) : Occurrences(r, r[i]) = Occurrences(tests, r[i])
       /\ \A i \in 1..Len(tests) :
            InFilter(tests[i], f) => Occurrences(r, tests[i]) > 0
       /\ \A i, j \in 1..Len(r) :
            i < j =>
              \/ TierRank(r[i].priority) < TierRank(r[j].priority)
              \/ /\ TierRank(r[i].priority) = TierRank(r[j].priority)
                 /\ r[i].total_score >= r[j].total_score

\* Two tests of section A were returned, the Highest one, stored last,
\* ahead of the one that is not to be automated.
C16_Witness ==
  /\ ret.op = "get_sorted_tests"
  /\ arg.section_filter = PStr("A")
  /\ Len(tests) = 2
  /\ Len(ret.val) = 2
  /\ ret.val[1] = tests[2]
  /\ tests[1].priority = "Won't Automate"
  /\ tests[2].priority = "Highest"

\* The name of the list that holds the tests of a tier.
TierList(priority) ==
  CASE priority = "Highest" -> "highest"
    [] priority = "High" -> "high"
    [] priority = "Medium" -> "medium"
    [] priority = "Low" -> "low"
    [] priority = "Lowest" -> "lowest"
    [] priority = "Won't Automate" -> "wont_automate"

TierLists == {"highest", "high", "medium", "low", "lowest", "wont_automate"}

\* C17: get_priority_tiers partitions the filtered live tests by their
\* stored priority: every member of a list has the priority the list is
\* named by, no test is in two lists, and every filtered live test is in
\* the lists as often as it is stored.
C17_TiersPartition ==
  ret.op = "get_priority_tiers" =>
    LET v == ret.val
        f == arg.section_filter
    IN /\ \A l \in TierLists :
            \A i \in 1..Len(v[l]) :
              /\ TierList(v[l][i].priority) = l
              /\ InFilter(v[l][i], f)
              /\ \A m \in TierLists \ {l} : Occurrences(v[m], v[l][i]) = 0
       /\ \A i \in 1..Len(tests) :
            InFilter(tests[i], f) =>
              Occurrences(v[TierList(tests[i].priority)], tests[i])
                = Occurrences(tests, tests[i])

\* The tiers of section A with one test in highest and one in wont_automate.
C17_Witness ==
  /\ ret.op = "get_priority_tiers"
  /\ arg.section_filter = PStr("A")
  /\ Len(ret.val.highest) = 1
  /\ Len(ret.val.wont_automate) = 1

\* C18: the thresholds get_priority_tiers returns are the same in every
\* state and are the classifier's boundaries: 90 for Highest, 80 for High,
\* 60 for Medium and 40 for Low, of a maximum of 100.
C18_FixedThresholds ==
  ret.op = "get_priority_tiers" =>
    /\ ret.val.highest_threshold = 900
    /\ ret.val.high_threshold = 800
    /\ ret.val.medium_threshold = 600
    /\ ret.val.low_threshold = 400
    /\ ret.val.max_score = 1000

\* The tier of a total score, in tenths.
TierOf(total_score) ==
  CASE total_score >= 900 -> "Highest"
    [] total_score >= 800 /\ total_score < 900 -> "High"
    [] total_score >= 600 /\ total_score < 800 -> "Medium"
    [] total_score >= 400 /\ total_score < 600 -> "Low"
    [] total_score < 400 -> "Lowest"

\* The cell of this factor is absent from the record or is no integer.
NoScore(data, factor_key) ==
  \/ factors[factor_key].name \notin DOMAIN data
  \/ int(data[factors[factor_key].name]).raised # ""

\* The number of records import_tests stores: all of them, or those up to
\* the first whose "Test ID" is null, where the import stops (C20).
StoredCount(tests_data) ==
  LET NullId(j) == /\ "Test ID" \in DOMAIN tests_data[j]
                   /\ tests_data[j]["Test ID"].ty = "none"
      stops == {j \in 1..Len(tests_data) : NullId(j)}
  IN IF stops = {} THEN Len(tests_data)
     ELSE CHOOSE j \in stops : \A k \in stops : j <= k

C20_ImportNeverRaises ==
  [][\A tests_data \in BatchInputs, replace \in BOOLEAN :
       ImportTestsCall(tests_data, replace) =>
         /\ ret'.raised = ""
         /\ ret'.val = Len(tests_data)
         /\ Len(tests') = (IF replace THEN 0 ELSE Len(tests)) + Len(tests_data)]_vars

\* The two tests are equal in everything but the id.
SameContent(t, u) == [t EXCEPT !.id = None] = [u EXCEPT !.id = None]

\* C21: import_tests(R, replace=True) made twice leaves the tests (equal in
\* everything but the id, and in the id where the record has a "Test ID"),
\* the sections set and the id counter that making it once leaves.
C21_ReplaceIdempotent ==
  arg.fn = "import_tests_again" =>
    /\ Len(tests) = Len(arg.once.tests)
    /\ \A i \in 1..Len(tests) :
         /\ SameContent(tests[i], arg.once.tests[i])
         /\ ("Test ID" \in DOMAIN arg.tests_data[i]
               => tests[i].id = arg.once.tests[i].id)
    /\ sections = arg.once.sections
    /\ current_id = arg.once.current_id

\* C22: within one import_tests call a record with a "Test ID" keeps it,
\* and a record without one receives an id that no earlier record of the
\* call received.
C22_BatchIdResolution ==
  arg.fn = "import_tests" =>
    LET tests_data == arg.tests_data
        base == IF arg.replace THEN 0 ELSE arg.before
    IN \A j \in 1..(Len(tests) - base) :
         IF "Test ID" \in DOMAIN tests_data[j]
           THEN tests[base + j].id = tests_data[j]["Test ID"]
           ELSE \A i \in 1..(j - 1) : tests[base + i].id # tests[base + j].id

\* The test is the one import_tests builds from the record.
BuiltFrom(t, data) ==
  /\ SameContent(t, import_test(data))
  /\ ("Test ID" \in DOMAIN data => t.id = data["Test ID"])

\* C23: import_tests(R, replace=False) leaves the tests there were as they
\* were and where they were, and appends the tests built from R behind
\* them; import_tests(R, replace=True) leaves exactly the tests built from
\* R, and as sections exactly the sections of R that are not empty.
C23_ImportFrame ==
  [][(~Recorded /\ Recorded') =>
       LET tests_data == arg'.tests_data
           base == IF arg'.replace THEN 0 ELSE Len(tests)
       IN /\ Len(tests') = base + Len(tests_data)
          /\ SubSeq(tests', 1, base) = SubSeq(tests, 1, base)
          /\ \A j \in 1..Len(tests_data) :
               BuiltFrom(tests'[base + j], tests_data[j])
          /\ (arg'.replace =>
                sections' = {import_section(tests_data[j]) :
                               j \in 1..Len(tests_data)} \ {""})]_vars

\* The place of the first live test with this id.
FirstWithId(test_id) ==
  CHOOSE i \in 1..Len(tests) :
    /\ tests[i].id = test_id
    /\ \A j \in 1..(i - 1) : tests[j].id # test_id

\* C24: delete_one_test with an id a live test has removes the first test
\* with that id and no other, returns True, leaves the other tests, their
\* order and the id counter as they were, and takes the removed test's
\* section out of the sections set exactly when it is not empty and no
\* test left has it.
C24_DeleteOneFrame ==
  [][\A test_id \in IdInputs :
       (/\ ret'.op = "delete_one_test"
        /\ ~IdAbsent(test_id)
        /\ DeleteOneTestCall(test_id)) =>
         LET i == FirstWithId(test_id)
             section == tests[i].section
         IN /\ ret'.raised = ""
            /\ ret'.val = TRUE
            /\ Len(tests') = Len(tests) - 1
            /\ \A j \in 1..Len(tests') :
                 tests'[j] = IF j < i THEN tests[j] ELSE tests[j + 1]
            /\ current_id' = current_id
            /\ sections' =
                 IF section # ""
                    /\ \A j \in 1..Len(tests') : tests'[j].section # section
                   THEN sections \ {section}
                   ELSE sections]_vars

\* A test of section A was deleted and another test of section A is left.
C24_Witness ==
  /\ ret.op = "delete_one_test"
  /\ ret.val = TRUE
  /\ Len(tests) = 1
  /\ tests[1].section = "A"
  /\ sections = {"A"}

\* C25: an update_test that finds its test changes that test alone: the
\* test keeps its id and its place, the number of tests, every other test
\* and the id counter are as they were, and the sections set gains at most
\* the new section and loses at most the old one.
C25_UpdateFrame ==
  [][\A test_id \in IdInputs, f \in FormInputs :
       (/\ ret'.op = "update_test"
        /\ ~IdAbsent(test_id)
        /\ UpdateTestCall(test_id, f)) =>
         LET i == FirstWithId(test_id) IN
         /\ ret'.raised = ""
         /\ Len(tests') = Len(tests)
         /\ tests'[i].id = tests[i].id
         /\ \A j \in 1..Len(tests) : j # i => tests'[j] = tests[j]
         /\ current_id' = current_id
         /\ sections' \subseteq sections \cup {f[2]}
         /\ sections \ {tests[i].section} \subseteq sections']_vars

\* The first of two tests with one id was updated into section B.
C25_Witness ==
  /\ ret.op = "update_test"
  /\ ret.val # None
  /\ Len(tests) = 2
  /\ tests[1].id = tests[2].id
  /\ tests[1].section = "B"
  /\ tests[1].name = "n2"
  /\ tests[2].name # "n2"

\* C29: every section that is not empty and that a live test carries is
\* in the sections set, whatever else the set holds.
C29_SectionsCoverLive ==
  \A i \in 1..Len(tests) :
    ("section" \in DOMAIN tests[i] /\ tests[i].section # "")
      => tests[i].section \in sections

\* A test is in a section while the set also holds a label no test has.
C29_Witness ==
  /\ \E i \in 1..Len(tests) : tests[i].section # ""
  /\ \E label \in sections :
       \A i \in 1..Len(tests) : tests[i].section # label

\* Every score of every live test is 1, 3 or 5.
ScoresValid ==
  \A i \in 1..Len(tests) :
    \A k \in DOMAIN tests[i].scores : tests[i].scores[k] \in {1, 3, 5}

\* C30: when every score of every live test is 1, 3 or 5, the list that
\* get_sorted_tests returns does not rise in total_score anywhere, so that
\* the tests that are not to be automated, of score 0, come last.
C30_SortedByScore ==
  (ret.op = "get_sorted_tests" /\ ScoresValid) =>
    \A i, j \in 1..Len(ret.val) :
      i < j => ret.val[i].total_score >= ret.val[j].total_score

\* A test that is not to be automated was returned behind a Lowest test
\* that was stored after it.
C30_Witness ==
  /\ ret.op = "get_sorted_tests"
  /\ ScoresValid
  /\ Len(ret.val) = 2
  /\ ret.val[2] = tests[1]
  /\ ret.val[1].priority = "Lowest"
  /\ ret.val[1].total_score > 0
  /\ ret.val[2].priority = "Won't Automate"
  /\ ret.val[2].total_score = 0

RepositoryOps ==
  {"add_test", "update_test", "delete_one_test", "delete_all_tests",
   "import_tests"}

\* C26: the collection, the id counter and the sections set change only in
\* steps of add_test, update_test, delete_one_test, delete_all_tests and
\* import_tests; a step of a view puts no label into the sections set that
\* no live test carries.
C26_OnlyRepositoryMutates ==
  [][/\ (tests' # tests \/ current_id' # current_id \/ sections' # sections)
          => ret'.op \in RepositoryOps
     /\ ret'.op \notin RepositoryOps
          => (sections' \ sections) \subseteq LiveSections']_vars

\* C27: with a catalog whose weights other than can_be_automated's are all
\* zero, calculate_score returns the normalized score 0 and does not fail.
C27_DegenerateCatalog ==
  (/\ ret.op = "calculate_score"
   /\ \A k \in FactorKeys \ {"can_be_automated"} : arg.factors[k].weight = 0)
    => (ret.val.raised = "" /\ ret.val.norm = 0)

\* The section of a report that shows the tests of a tier list.
ReportSection(l) == IF l = "wont_automate" THEN "cant_automate" ELSE l

\* C28: every test of each of the six lists of get_priority_tiers is in
\* the section of its tier in the HTML report and in the text report, and
\* the counts of the HTML report add up to the number of live tests.
C28_ReportShowsEveryTest ==
  Reported =>
    LET priority_tiers == get_priority_tiers(None) IN
    /\ \A l \in TierLists :
         \A i \in 1..Len(priority_tiers[l]) :
           Occurrences(ret.val.sections[ReportSection(l)], priority_tiers[l][i]) > 0
    /\ (ret.op = "export_report" =>
          LET n == ret.val.priority_counts IN
          n["Highest"] + n["High"] + n["Medium"] + n["Low"] + n["Lowest"]
            + n["Can't Automate"] = Len(tests))

====
